---- MODULE Spec2Model ----
(***************************************************************************)
(* Text Extractor node: file-type detection, the five extraction           *)
(* strategies, the lazily created OCR worker and the batch loop of         *)
(* TextExtractor.execute (src/nodes/TextExtractor/TextExtractor.node.ts).  *)
(*                                                                         *)
(* Strings the code inspects character by character (file names, texts)    *)
(* are sequences of one-character strings; Str turns one into the string   *)
(* stored in an output record.  A buffer is described by what the external *)
(* collaborators return for it.                                            *)
(***************************************************************************)
EXTENDS Integers, Sequences, FiniteSets, TLC

VARIABLES
    items,        \* getInputData(): the batch, one entry per input item
    continueOnFail, \* this.continueOnFail()
    i,            \* loop index of execute
    pc,           \* position in execute: "loop", "finally", "returned", "thrown"
    returnData,   \* the records pushed so far
    worker,       \* the Worker | null local of execute
    thrown,       \* the error propagating out of the loop / out of execute
    calls,        \* calls made to the external collaborators so far
    trace,        \* per processed item: what happened (history)
    fn,           \* pure-function specifications: the function applied
    args,         \* ... its arguments
    result        \* ... its result

vars == <<items, continueOnFail, i, pc, returnData, worker, thrown, calls,
          trace, fn, args, result>>

batchVars == <<items, continueOnFail, i, pc, returnData, worker, thrown, calls, trace>>
pureVars == <<fn, args, result>>

----------------------------------------------------------------------------
(* Bounds of the model *)

MaxItems == 3
MaxPages == 2
MaxTextLen == 2

----------------------------------------------------------------------------
(* JavaScript values *)

\* null in a string-valued field (fileType, language, method)
Null == "null"
\* a truthy non-FileType value read through the prototype chain of an object
\* literal (MIME_MAP["constructor"], EXT_MAP["__proto__"], ...)
Inherited == "[inherited]"

Num(n) == [kind |-> "num", val |-> n]
NaN == [kind |-> "NaN", val |-> 0]
NullNum == [kind |-> "null", val |-> 0]

RECURSIVE Str(_)
Str(s) == IF s = <<>> THEN "" ELSE Head(s) \o Str(Tail(s))

Whitespace == {" ", "\n", "\t"}

RECURSIVE trimStart(_)
trimStart(s) ==
    IF s # <<>> /\ Head(s) \in Whitespace THEN trimStart(Tail(s)) ELSE s

RECURSIVE trimEnd(_)
trimEnd(s) ==
    IF s # <<>> /\ s[Len(s)] \in Whitespace
    THEN trimEnd(SubSeq(s, 1, Len(s) - 1)) ELSE s

\* String.prototype.trim
trim(s) == trimEnd(trimStart(s))

UpperCase == <<"A","B","C","D","E","F","G","H","I","J","K","L","M",
               "N","O","P","Q","R","S","T","U","V","W","X","Y","Z">>
LowerCase == <<"a","b","c","d","e","f","g","h","i","j","k","l","m",
               "n","o","p","q","r","s","t","u","v","w","x","y","z">>

lowerChar(c) ==
    IF \E k \in 1..Len(UpperCase) : UpperCase[k] = c
    THEN LowerCase[CHOOSE k \in 1..Len(UpperCase) : UpperCase[k] = c]
    ELSE c

\* String.prototype.toLowerCase
toLowerCase(s) == [k \in 1..Len(s) |-> lowerChar(s[k])]

\* fileName.split('.').pop(): the part after the last '.', the whole string
\* when it holds no '.'
RECURSIVE splitPop(_)
splitPop(s) ==
    IF \E k \in 1..Len(s) : s[k] = "."
    THEN splitPop(SubSeq(s, (CHOOSE k \in 1..Len(s) : s[k] = ".") + 1, Len(s)))
    ELSE s

\* Math.round of a value given in half units (x = h / 2): round half up
MathRound2(h) == (h + 1) \div 2

\* mutant of MathRoundDiv: the mean is truncated instead of rounded
MathRoundDivTruncated(total, n) ==
    IF n = 0 THEN NaN ELSE Num(total \div n)

\* Math.round(total / n) for integers total >= 0 and n; 0 / 0 is NaN
MathRoundDiv(total, n) ==
    IF n = 0 THEN NaN ELSE Num((2 * total + n) \div (2 * n))

----------------------------------------------------------------------------
(* helpers: file type detection *)

MIME_MAP ==
    ("image/png" :> "image") @@ ("image/jpeg" :> "image") @@
    ("image/jpg" :> "image") @@ ("image/webp" :> "image") @@
    ("image/bmp" :> "image") @@ ("image/tiff" :> "image") @@
    ("image/gif" :> "image") @@ ("application/pdf" :> "pdf") @@
    ("application/vnd.openxmlformats-officedocument.wordprocessingml.document"
        :> "docx") @@
    ("application/msword" :> "doc") @@ ("text/plain" :> "txt")

EXT_MAP ==
    ("png" :> "image") @@ ("jpg" :> "image") @@ ("jpeg" :> "image") @@
    ("webp" :> "image") @@ ("bmp" :> "image") @@ ("tiff" :> "image") @@
    ("tif" :> "image") @@ ("gif" :> "image") @@ ("pdf" :> "pdf") @@
    ("docx" :> "docx") @@ ("doc" :> "doc") @@ ("txt" :> "txt")

\* property names every object literal inherits from Object.prototype
ObjectPrototypeKeys ==
    {"constructor", "__proto__", "toString", "valueOf", "hasOwnProperty"}

\* map[key] of a Record<string, FileType> written as an object literal:
\* an own entry, an inherited (truthy) member, or undefined (here Null)
lookup(map, key) ==
    IF key \in DOMAIN map THEN map[key]
    ELSE IF key \in ObjectPrototypeKeys THEN Inherited
    ELSE Null

\* mimeType is a string ("" when empty); fileName a character sequence
detectFileType(mimeType, fileName) ==
    IF mimeType # "" /\ lookup(MIME_MAP, mimeType) # Null
    THEN lookup(MIME_MAP, mimeType)
    ELSE IF fileName # <<>>
         THEN LET ext == Str(toLowerCase(splitPop(fileName)))
              IN IF ext # "" /\ lookup(EXT_MAP, ext) # Null
                 THEN lookup(EXT_MAP, ext)
                 ELSE Null
         ELSE Null

----------------------------------------------------------------------------
(* outcomes of a call: a returned value or a thrown error, with the calls *)
(* it made to the external collaborators                                  *)

NoCalls == [open |-> 0, raster |-> 0, recognize |-> 0, sharp |-> 0,
            parse |-> 0]

addCalls(a, b) == [k \in DOMAIN a |-> a[k] + b[k]]

Return(val, eff) == [ok |-> TRUE, val |-> val, eff |-> eff]
Throw(msg, eff) == [ok |-> FALSE, err |-> msg, eff |-> eff]

\* the Worker | null handle: NoWorker is null
NoWorker == [id |-> 0, lang |-> Null, state |-> "none"]

ErrSharp == "Input buffer contains unsupported image format"
ErrNullWorker == "Cannot read properties of null (reading 'recognize')"
ErrRecognize == "Error attempting to read image"
ErrPdfOpen == "Invalid PDF structure"
ErrRaster == "Failed to render PDF"
ErrDocx == "Could not find the body of the docx file"
ErrDoc == "Invalid OLE document"
ErrNoBinary == "This operation expects binary data, but none was found"
ErrCreateWorker == "Failed to load language data"
ErrTerminate == "Worker termination failed"

----------------------------------------------------------------------------
(* extraction functions.  A buffer is [fmt, text, conf2, numPages, rasterOk, *)
(* pages]: fmt is what the bytes really are ("image", "pdf", "docx", "doc",  *)
(* "txt" or "corrupt"), and an external engine rejects a buffer that is not  *)
(* of its format; text is what the engine reads from it, conf2 the engine's  *)
(* confidence in half units, pages what the rasterizer renders.              *)

extractFromImage(buffer, w, preprocess) ==
    LET afterSharp == [NoCalls EXCEPT !.sharp = IF preprocess THEN 1 ELSE 0]
        afterRecognize == [afterSharp EXCEPT !.recognize = 1]
    IN IF preprocess /\ buffer.fmt # "image"
       THEN Throw(ErrSharp, afterSharp)
       ELSE IF w = NoWorker
       THEN Throw(ErrNullWorker, afterSharp)
       ELSE IF buffer.fmt # "image" \/ w.state # "ready"
       THEN Throw(ErrRecognize, afterRecognize)
       ELSE Return([text |-> trim(buffer.text),
                    confidence |-> Num(MathRound2(buffer.conf2))],
                   afterRecognize)

\* mutant of pdfToImages: the undefined contents are not filtered out
pdfToImagesUnfiltered(pdfBuffer, scale) ==
    [k \in 1..Len(pdfBuffer.pages) |-> pdfBuffer.pages[k].content]

\* pdfToImages.ts: the page contents, the undefined ones filtered out
pdfToImages(pdfBuffer, scale) ==
    LET pages == pdfBuffer.pages
        defined == SelectSeq(pages, LAMBDA page : page.defined)
    IN [k \in 1..Len(defined) |-> defined[k].content]

\* the for (const img of images) loop of extractFromPdf from image k on;
\* acc is [ok, err, texts, totalConfidence, eff]
RECURSIVE ocrLoop(_, _, _, _, _)
RECURSIVE ocrStep(_, _, _, _, _, _)
ocrLoop(images, k, w, preprocess, acc) ==
    IF k > Len(images) THEN acc
    ELSE ocrStep(images, k, w, preprocess, acc,
                 extractFromImage(images[k], w, preprocess))

\* lines 116-118: r is what extractFromImage gave for image k
ocrStep(images, k, w, preprocess, acc, r) ==
    IF ~r.ok
    THEN [acc EXCEPT !.ok = FALSE, !.err = r.err,
                     !.eff = addCalls(acc.eff, r.eff)]
    ELSE ocrLoop(images, k + 1, w, preprocess,
                 [acc EXCEPT !.texts = Append(@, r.val.text),
                             !.totalConfidence = @ + r.val.confidence.val,
                             !.eff = addCalls(acc.eff, r.eff)])

\* texts.join('\n\n')
RECURSIVE join(_)
join(texts) ==
    IF texts = <<>> THEN <<>>
    ELSE IF Len(texts) = 1 THEN texts[1]
    ELSE texts[1] \o <<"\n", "\n">> \o join(Tail(texts))

\* mutant of textIsEnough: > for >=
textIsEnoughStrict(shouldTryText, textResult, minTextThreshold) ==
    shouldTryText /\ Len(textResult) > minTextThreshold

\* line 102: the text layer is accepted as it is
textIsEnough(shouldTryText, textResult, minTextThreshold) ==
    shouldTryText /\ Len(textResult) >= minTextThreshold

\* lines 121-126: the result of the OCR fallback, loop being what the page
\* loop over `images` gave
ocrResult(images, loop) ==
    IF ~loop.ok
    THEN Throw(loop.err, loop.eff)
    ELSE Return([text |-> join(loop.texts),
                 pageCount |-> Len(images),
                 confidence |-> MathRoundDiv(loop.totalConfidence, Len(images)),
                 method |-> "pdf-ocr"], loop.eff)

\* lines 107-127: the OCR fallback, eff being the calls made before it
ocrFallback(buffer, w, preprocess, renderScale, eff) ==
    IF buffer.fmt # "pdf" \/ ~buffer.rasterOk
    THEN Throw(ErrRaster, [eff EXCEPT !.raster = 1])
    ELSE ocrResult(pdfToImages(buffer, renderScale),
                   ocrLoop(pdfToImages(buffer, renderScale), 1, w, preprocess,
                           [ok |-> TRUE, err |-> "", texts |-> <<>>,
                            totalConfidence |-> 0,
                            eff |-> [eff EXCEPT !.raster = 1]]))

\* lines 101-130: the decision once the text layer was read (or skipped)
afterText(buffer, shouldTryText, shouldTryOcr, w, preprocess, renderScale, minTextThreshold, textResult, pageCount, eff) ==
    IF textIsEnough(shouldTryText, textResult, minTextThreshold)
    THEN Return([text |-> textResult, pageCount |-> pageCount,
                 confidence |-> NullNum, method |-> "pdf-text"], eff)
    ELSE IF shouldTryOcr /\ w # NoWorker
    THEN ocrFallback(buffer, w, preprocess, renderScale, eff)
    ELSE Return([text |-> textResult, pageCount |-> pageCount,
                 confidence |-> NullNum, method |-> "pdf-text"], eff)

\* lines 87-99, then the decision
tryText(buffer, shouldTryText, shouldTryOcr, w, preprocess, renderScale, minTextThreshold) ==
    IF shouldTryText /\ buffer.fmt # "pdf"
    THEN Throw(ErrPdfOpen, [NoCalls EXCEPT !.open = 1])
    ELSE afterText(buffer, shouldTryText, shouldTryOcr, w, preprocess,
                   renderScale, minTextThreshold,
                   IF shouldTryText THEN trim(buffer.text) ELSE <<>>,
                   IF shouldTryText THEN buffer.numPages ELSE 0,
                   [NoCalls EXCEPT !.open = IF shouldTryText THEN 1 ELSE 0])

\* mutant of extractFromPdf: the text layer is read under every strategy
extractFromPdfTextFirst(buffer, strategy, w, preprocess, renderScale, minTextThreshold) ==
    tryText(buffer, TRUE, strategy = "auto" \/ strategy = "ocr",
            w, preprocess, renderScale, minTextThreshold)

\* lines 87-88, then the rest of the function
extractFromPdf(buffer, strategy, w, preprocess, renderScale, minTextThreshold) ==
    tryText(buffer,
            strategy = "auto" \/ strategy = "text",
            strategy = "auto" \/ strategy = "ocr",
            w, preprocess, renderScale, minTextThreshold)

extractFromDocx(buffer) ==
    IF buffer.fmt # "docx" THEN Throw(ErrDocx, [NoCalls EXCEPT !.parse = 1])
    ELSE Return(trim(buffer.text), [NoCalls EXCEPT !.parse = 1])

extractFromDoc(buffer) ==
    IF buffer.fmt # "doc" THEN Throw(ErrDoc, [NoCalls EXCEPT !.parse = 1])
    ELSE Return(trim(buffer.text), [NoCalls EXCEPT !.parse = 1])

\* buffer.toString('utf-8').trim(): never throws
extractFromTxt(buffer) == trim(buffer.text)

----------------------------------------------------------------------------
(* TextExtractor.execute *)

NoError == ""

\* this.getNodeParameter(name, index): the value configured for that item
getNodeParameter(name, index) == items[index + 1].params[name]

hasBinary(item, key) == \E k \in 1..Len(item.binary) : item.binary[k].key = key
binaryOf(item, key) ==
    item.binary[CHOOSE k \in 1..Len(item.binary) : item.binary[k].key = key]

\* fileName ?? 'unknown' and mimeType ?? '' of a binary field's metadata
fileNameOf(binaryData) ==
    IF binaryData.fileName = <<>>
    THEN <<"u", "n", "k", "n", "o", "w", "n">> ELSE binaryData.fileName[1]
mimeTypeOf(binaryData) ==
    IF binaryData.mimeType = <<>> THEN "" ELSE binaryData.mimeType[1]

\* mutant of resolveProperty: the first binary field whatever its name
resolvePropertyFirstField(item, binaryProperty) ==
    IF Len(item.binary) > 0 THEN item.binary[1].key ELSE binaryProperty

\* lines 298-304: the configured name, or the first binary field of the item
resolveProperty(item, binaryProperty) ==
    IF ~hasBinary(item, binaryProperty) /\ Len(item.binary) > 0
    THEN item.binary[1].key
    ELSE binaryProperty

\* mutant of resolveFileType: operation document always gives docx
resolveFileTypeAlwaysDocx(operation, mimeType, fileName) ==
    IF operation = "auto" THEN detectFileType(mimeType, fileName)
    ELSE IF operation = "ocr" THEN "image"
    ELSE IF operation = "pdf" THEN "pdf"
    ELSE "docx"

\* lines 313-324
resolveFileType(operation, mimeType, fileName) ==
    IF operation = "auto" THEN detectFileType(mimeType, fileName)
    ELSE IF operation = "ocr" THEN "image"
    ELSE IF operation = "pdf" THEN "pdf"
    ELSE LET detected == detectFileType(mimeType, fileName)
         IN IF detected = "doc" \/ detected = "docx" THEN detected ELSE "docx"

\* `Unsupported file type: ${mimeType || fileName}`
unsupportedMessage(mimeType, fileName) ==
    "Unsupported file type: " \o (IF mimeType # "" THEN mimeType ELSE Str(fileName))

\* mutant of needsOcrOf: images are not counted as needing the engine
needsOcrOfPdfOnly(fileType, index) ==
    fileType = "pdf" /\ getNodeParameter("pdfStrategy", index) # "text"

\* lines 335-338
needsOcrOf(fileType, index) ==
    fileType = "image" \/
    (fileType = "pdf" /\ getNodeParameter("pdfStrategy", index) # "text")

\* Tesseract.createWorker(ocrLanguage): the n-th worker of the run
createWorker(lang, n) == [id |-> n, lang |-> lang, state |-> "ready"]

\* lines 352-355, 381-382, 386-387: the locals after a strategy that
\* gives a text (and, for an image, a confidence)
textLocals(r, text, confidence, method) ==
    IF ~r.ok THEN r
    ELSE Return([text |-> text, pageCount |-> NullNum,
                 confidence |-> confidence, method |-> method], r.eff)

\* mutant of pdfLocals: pageCount is left at its initial null
pdfLocalsNoPageCount(r) ==
    IF ~r.ok THEN r
    ELSE Return([text |-> r.val.text, pageCount |-> NullNum,
                 confidence |-> r.val.confidence, method |-> r.val.method],
                r.eff)

\* lines 374-377: the locals after extractFromPdf
pdfLocals(r) ==
    IF ~r.ok THEN r
    ELSE Return([text |-> r.val.text, pageCount |-> Num(r.val.pageCount),
                 confidence |-> r.val.confidence, method |-> r.val.method],
                r.eff)

\* mutant of imageLocals: confidence is left at its initial null
imageLocalsNoConfidence(r) ==
    IF ~r.ok THEN r ELSE textLocals(r, r.val.text, NullNum, "ocr")

\* lines 351-357
imageLocals(r) ==
    IF ~r.ok THEN r ELSE textLocals(r, r.val.text, r.val.confidence, "ocr")

\* lines 380-389
parsedLocals(r, method) ==
    IF ~r.ok THEN r ELSE textLocals(r, r.val, NullNum, method)

\* lines 345-395: the switch over fileType; a value that is no case of the
\* switch leaves text '' and method ''
dispatch(fileType, buffer, w, preprocess, index) ==
    CASE fileType = "image" ->
           imageLocals(extractFromImage(buffer, w, preprocess))
      [] fileType = "pdf" ->
           pdfLocals(extractFromPdf(buffer,
                                    getNodeParameter("pdfStrategy", index), w,
                                    preprocess,
                                    getNodeParameter("pdfRenderScale", index),
                                    getNodeParameter("minTextThreshold", index)))
      [] fileType = "docx" -> parsedLocals(extractFromDocx(buffer), "docx")
      [] fileType = "doc" -> parsedLocals(extractFromDoc(buffer), "doc")
      [] fileType = "txt" ->
           Return([text |-> extractFromTxt(buffer), pageCount |-> NullNum,
                   confidence |-> NullNum, method |-> "txt"], NoCalls)
      [] OTHER ->
           Return([text |-> <<>>, pageCount |-> NullNum,
                   confidence |-> NullNum, method |-> ""], NoCalls)

\* lines 397-408
successRecord(r, fileName, mimeType, fileType, needsOcr, ocrLanguage) ==
    [text |-> Str(r.text), fileName |-> Str(fileName), mimeType |-> mimeType,
     fileType |-> fileType, pageCount |-> r.pageCount,
     confidence |-> r.confidence,
     language |-> IF needsOcr THEN ocrLanguage ELSE Null,
     method |-> r.method]

\* mutant of degradedRecord: method keeps its initial '' instead of null
degradedRecordEmptyMethod(item, binaryProperty, message) ==
    LET present == Len(item.binary) > 0
        binaryData == IF hasBinary(item, binaryProperty)
                      THEN binaryOf(item, binaryProperty)
                      ELSE item.binary[1]
    IN [error |-> message,
        fileName |-> IF present THEN Str(fileNameOf(binaryData)) ELSE "unknown",
        mimeType |-> IF present THEN mimeTypeOf(binaryData) ELSE "",
        fileType |-> Null, pageCount |-> NullNum, confidence |-> NullNum,
        language |-> Null, method |-> ""]

\* lines 411-425
degradedRecord(item, binaryProperty, message) ==
    LET present == Len(item.binary) > 0
        binaryData == IF hasBinary(item, binaryProperty)
                      THEN binaryOf(item, binaryProperty)
                      ELSE item.binary[1]
    IN [error |-> message,
        fileName |-> IF present THEN Str(fileNameOf(binaryData)) ELSE "unknown",
        mimeType |-> IF present THEN mimeTypeOf(binaryData) ELSE "",
        fileType |-> Null, pageCount |-> NullNum, confidence |-> NullNum,
        language |-> Null, method |-> Null]

\* what the inner try body of one item gave: [ok, record | err, worker,
\* created, needsOcr, fileType, eff]
failed(msg, w, created, needsOcr, fileType, eff) ==
    [ok |-> FALSE, err |-> msg, worker |-> w, created |-> created,
     needsOcr |-> needsOcr, fileType |-> fileType, eff |-> eff]

\* lines 397-408, r being what the switch gave
assemble(r, w, created, needsOcr, fileName, mimeType, fileType, ocrLanguage) ==
    IF ~r.ok
    THEN failed(r.err, w, created, needsOcr, fileType, r.eff)
    ELSE [ok |-> TRUE,
          record |-> successRecord(r.val, fileName, mimeType, fileType,
                                   needsOcr, ocrLanguage),
          worker |-> w, created |-> created, needsOcr |-> needsOcr,
          fileType |-> fileType, eff |-> r.eff]

\* lines 340-408
initWorker(index, w, created, createOk, buffer, fileName, mimeType, fileType, needsOcr, ocrLanguage, preprocess) ==
    IF needsOcr /\ w = NoWorker
    THEN IF ~createOk
         THEN failed(ErrCreateWorker, w, created + 1, needsOcr, fileType,
                     NoCalls)
         ELSE assemble(dispatch(fileType, buffer,
                              createWorker(ocrLanguage, created + 1),
                              preprocess, index),
                       createWorker(ocrLanguage, created + 1), created + 1,
                       needsOcr, fileName, mimeType, fileType, ocrLanguage)
    ELSE assemble(dispatch(fileType, buffer, w, preprocess, index),
                w, created, needsOcr, fileName, mimeType, fileType,
                ocrLanguage)

\* lines 326-408
checkFileType(index, w, created, createOk, buffer, fileName, mimeType, fileType) ==
    IF fileType = Null
    THEN failed(unsupportedMessage(mimeType, fileName), w, created, FALSE,
                Null, NoCalls)
    ELSE initWorker(index, w, created, createOk, buffer, fileName, mimeType,
                    fileType, needsOcrOf(fileType, index),
                    getNodeParameter("ocrLanguage", 0),
                    getNodeParameter("preprocess", 0))

\* lines 306-408, binaryData being what assertBinaryData returned
withBinary(index, w, created, createOk, binaryData) ==
    checkFileType(index, w, created, createOk, binaryData.buffer,
                  fileNameOf(binaryData), mimeTypeOf(binaryData),
                  resolveFileType(getNodeParameter("operation", 0),
                                  mimeTypeOf(binaryData),
                                  fileNameOf(binaryData)))

\* lines 297-408: the body of the inner try for item `index` (0-based), entered
\* with worker w after `created` earlier createWorker calls; createOk is
\* whether a createWorker call made now succeeds.  The parameters
\* binaryProperty, operation, ocrLanguage and preprocess are the ones read
\* with index 0 at lines 287-290.
tryBody(index, w, created, createOk) ==
    LET item == items[index + 1]
        resolvedProperty ==
            resolveProperty(item, getNodeParameter("binaryProperty", 0))
    IN IF ~hasBinary(item, resolvedProperty)
       THEN failed(ErrNoBinary, w, created, FALSE, Null, NoCalls)
       ELSE withBinary(index, w, created, createOk,
                       binaryOf(item, resolvedProperty))

----------------------------------------------------------------------------
(* the input batches of the model *)

Buffer(fmt, text, conf2, numPages, rasterOk, pages) ==
    [fmt |-> fmt, text |-> text, conf2 |-> conf2, numPages |-> numPages,
     rasterOk |-> rasterOk, pages |-> pages]

Page(defined, fmt, text, conf2) ==
    [defined |-> defined,
     content |-> [fmt |-> fmt, text |-> text, conf2 |-> conf2]]

Field(key, fileName, mimeType, buffer) ==
    [key |-> key, fileName |-> fileName, mimeType |-> mimeType,
     buffer |-> buffer]

Params(operation, ocrLanguage, preprocess, pdfStrategy, minTextThreshold) ==
    [binaryProperty |-> "data", operation |-> operation,
     ocrLanguage |-> ocrLanguage, preprocess |-> preprocess,
     pdfStrategy |-> pdfStrategy, pdfRenderScale |-> 2,
     minTextThreshold |-> minTextThreshold]

Item(binary, params) == [binary |-> binary, params |-> params]

TxtBuf == Buffer("txt", <<" ", "h", "i", " ">>, 0, 0, FALSE, <<>>)
ImgBuf == Buffer("image", <<"o", "k", "\n">>, 161, 0, FALSE, <<>>)
BadBuf == Buffer("corrupt", <<>>, 0, 0, FALSE, <<>>)
DocBuf == Buffer("doc", <<"d">>, 0, 0, FALSE, <<>>)
PdfBuf == Buffer("pdf", <<" ", "a", "b">>, 0, 2, TRUE,
                 <<Page(TRUE, "image", <<"P", "1">>, 180),
                   Page(TRUE, "image", <<"P", "2", " ">>, 160)>>)
\* a PDF one of whose two pages the rasterizer renders without content
GapPdfBuf == Buffer("pdf", <<>>, 0, 2, TRUE,
                    <<Page(FALSE, "image", <<>>, 0),
                      Page(TRUE, "image", <<"P", "2">>, 151)>>)

TxtField == Field("data", << <<"a", ".", "t", "x", "t">> >>, <<"text/plain">>, TxtBuf)
\* an item whose only binary field is not under the configured name
ImgField == Field("image", << <<"s", ".", "P", "N", "G">> >>, <<>>, ImgBuf)
BadImgField == Field("data", << <<"c", ".", "j", "p", "g">> >>, <<"image/jpeg">>, BadBuf)
PdfField == Field("data", << <<"d", ".", "p", "d", "f">> >>, <<"application/pdf">>, PdfBuf)
GapPdfField == Field("data", << <<"g", ".", "p", "d", "f">> >>, <<"application/pdf">>, GapPdfBuf)
DocField == Field("file", << <<"o", ".", "d", "o", "c">> >>, <<"application/msword">>, DocBuf)
UnknownField == Field("data", << <<"x", ".", "b", "i", "n">> >>, <<"application/x-unknown">>, BadBuf)

\* the items a batch is drawn from.  ocrLanguage, preprocess and the PDF
\* parameters may be expressions and so differ from item to item
ItemSet ==
    { Item(<<TxtField>>, Params("auto", "eng", TRUE, "auto", 3)),
      Item(<<ImgField>>, Params("auto", "eng", FALSE, "auto", 3)),
      Item(<<BadImgField>>, Params("auto", "fra", TRUE, "auto", 3)),
      Item(<<PdfField>>, Params("auto", "eng", TRUE, "auto", 3)),
      Item(<<PdfField>>, Params("auto", "eng", TRUE, "auto", 2)),
      Item(<<PdfField>>, Params("auto", "eng", TRUE, "text", 3)),
      Item(<<GapPdfField>>, Params("auto", "deu", FALSE, "ocr", 3)),
      Item(<<DocField, TxtField>>, Params("auto", "eng", TRUE, "auto", 3)),
      Item(<<UnknownField>>, Params("auto", "eng", TRUE, "auto", 3)),
      Item(<<>>, Params("auto", "eng", TRUE, "auto", 3)),
      Item(<<DocField>>, Params("document", "deu", TRUE, "auto", 3)),
      Item(<<TxtField>>, Params("document", "eng", TRUE, "auto", 3)),
      Item(<<ImgField>>, Params("ocr", "eng", FALSE, "auto", 3)),
      Item(<<UnknownField>>, Params("ocr", "fra", TRUE, "auto", 3)) }

\* operation is declared noDataExpression (line 180): one value for the
\* whole batch
Batches ==
    UNION {{b \in [1..n -> ItemSet] :
              \A k \in 1..n : b[k].params.operation = b[1].params.operation} :
           n \in 1..MaxItems}

----------------------------------------------------------------------------
(* the batch run *)

NoBatchCalls ==
    [open |-> 0, raster |-> 0, recognize |-> 0, sharp |-> 0, parse |-> 0,
     createWorker |-> 0, terminate |-> 0]

\* the counters after an iteration that made the calls eff and left
\* `created` createWorker calls behind
countCalls(c, eff, created) ==
    [k \in DOMAIN c |->
        IF k = "createWorker" THEN created
        ELSE IF k \in DOMAIN eff THEN c[k] + eff[k] ELSE c[k]]

\* history: what the iteration of one item did
itemEvent(outcome, t, before, pushed) ==
    [kind |-> "item", outcome |-> outcome, fileType |-> t.fileType,
     needsOcr |-> t.needsOcr, before |-> before, after |-> t.worker,
     eff |-> t.eff, err |-> IF t.ok THEN NoError ELSE t.err,
     pushed |-> pushed]

\* mutant of push: the record is put in front (unshift)
pushFront(data, record) == <<record>> \o data

\* returnData.push(record): lines 397 and 414
push(data, record) == Append(data, record)

\* mutant of terminates: the release sits after the loop, not in a finally
terminatesOnSuccessOnly(w, err) == w # NoWorker /\ err = NoError

\* lines 431-435: the finally block runs whether or not an error is
\* propagating, and terminates the worker when there is one
terminates(w, err) == w # NoWorker

Init ==
    /\ items \in Batches
    /\ continueOnFail \in BOOLEAN
    /\ i = 0
    /\ pc = "loop"
    /\ returnData = <<>>
    /\ worker = NoWorker
    /\ thrown = NoError
    /\ calls = NoBatchCalls
    /\ trace = <<>>
    /\ fn = "execute"
    /\ args = <<>>
    /\ result = <<>>

\* lines 397-408: the try body completed with t
completes(t) ==
    /\ t.ok
    /\ returnData' = push(returnData, t.record)
    /\ worker' = t.worker
    /\ calls' = countCalls(calls, t.eff, t.created)
    /\ trace' = Append(trace, itemEvent("ok", t, worker, <<t.record>>))

\* mutant of catches: the catch block drops the worker
catchesDroppingWorker(t, rec) ==
    /\ ~t.ok
    /\ returnData' = push(returnData, rec)
    /\ worker' = NoWorker
    /\ calls' = countCalls(calls, t.eff, t.created)
    /\ trace' = Append(trace, itemEvent("caught", t, worker, <<rec>>))

\* lines 409-427: the try body threw with t, rec is the degraded record
catches(t, rec) ==
    /\ ~t.ok
    /\ returnData' = push(returnData, rec)
    /\ worker' = t.worker
    /\ calls' = countCalls(calls, t.eff, t.created)
    /\ trace' = Append(trace, itemEvent("caught", t, worker, <<rec>>))

\* line 428: the try body threw with t
rethrows(t) ==
    /\ ~t.ok
    /\ thrown' = t.err
    /\ worker' = t.worker
    /\ calls' = countCalls(calls, t.eff, t.created)
    /\ trace' = Append(trace, itemEvent("thrown", t, worker, <<>>))

\* an iteration whose try body completes: lines 296-408
ItemOk ==
    /\ pc = "loop"
    /\ i < Len(items)
    /\ \E createOk \in BOOLEAN :
         completes(tryBody(i, worker, calls.createWorker, createOk))
    /\ i' = i + 1
    /\ UNCHANGED <<items, continueOnFail, pc, thrown, pureVars>>

\* the degraded record of the catch block for the error of t
caughtRecord(t) ==
    IF t.ok THEN <<>>
    ELSE degradedRecord(items[i + 1], getNodeParameter("binaryProperty", 0),
                        t.err)

\* an iteration whose try body throws, with continueOnFail(): lines 409-427
ItemCaught ==
    /\ pc = "loop"
    /\ i < Len(items)
    /\ continueOnFail
    /\ \E createOk \in BOOLEAN :
         catches(tryBody(i, worker, calls.createWorker, createOk),
                 caughtRecord(tryBody(i, worker, calls.createWorker, createOk)))
    /\ i' = i + 1
    /\ UNCHANGED <<items, continueOnFail, pc, thrown, pureVars>>

\* an iteration whose try body throws, without continueOnFail(): line 428
ItemThrown ==
    /\ pc = "loop"
    /\ i < Len(items)
    /\ ~continueOnFail
    /\ \E createOk \in BOOLEAN :
         rethrows(tryBody(i, worker, calls.createWorker, createOk))
    /\ pc' = "finally"
    /\ UNCHANGED <<items, continueOnFail, i, returnData, pureVars>>

\* the loop condition fails: line 295
LoopExit ==
    /\ pc = "loop"
    /\ i >= Len(items)
    /\ pc' = "finally"
    /\ UNCHANGED <<items, continueOnFail, i, returnData, worker, thrown,
                   calls, trace, pureVars>>

\* lines 431-437: the finally block, then the return or the rethrow
Finally ==
    /\ pc = "finally"
    /\ IF terminates(worker, thrown)
       THEN \E terminateOk \in BOOLEAN :
              /\ worker' = [worker EXCEPT !.state = "terminated"]
              /\ calls' = [calls EXCEPT !.terminate = @ + 1]
              /\ trace' = Append(trace, [kind |-> "terminate",
                                         ok |-> terminateOk])
              /\ thrown' = IF terminateOk THEN thrown ELSE ErrTerminate
              /\ pc' = IF terminateOk /\ thrown = NoError
                       THEN "returned" ELSE "thrown"
       ELSE /\ pc' = IF thrown = NoError THEN "returned" ELSE "thrown"
            /\ UNCHANGED <<worker, calls, trace, thrown>>
    /\ UNCHANGED <<items, continueOnFail, i, returnData, pureVars>>

Next == ItemOk \/ ItemCaught \/ ItemThrown \/ LoopExit \/ Finally

Spec == Init /\ [][Next]_vars

----------------------------------------------------------------------------
(* Properties of the batch run (specification Spec) *)

exited == pc \in {"returned", "thrown"}

isItem(k) == k \in 1..Len(trace) /\ trace[k].kind = "item"

\* the file name and MIME type the records of an input item carry
inputFileName(item) ==
    IF Len(item.binary) = 0 THEN "unknown"
    ELSE Str(fileNameOf(binaryOf(item,
                 resolveProperty(item, getNodeParameter("binaryProperty", 0)))))
inputMimeType(item) ==
    IF Len(item.binary) = 0 THEN ""
    ELSE mimeTypeOf(binaryOf(item,
             resolveProperty(item, getNodeParameter("binaryProperty", 0))))

\* C1: a run of execute that returns gives exactly one record per input item,
\* and the k-th record is the one the iteration of the k-th item pushed (it
\* carries that item's file name and MIME type): nothing is skipped,
\* duplicated or reordered.
C1_OneRecordPerItemInOrder ==
    pc = "returned" =>
        /\ Len(returnData) = Len(items)
        /\ \A k \in 1..Len(items) :
             /\ isItem(k)
             /\ trace[k].pushed = <<returnData[k]>>
             /\ returnData[k].fileName = inputFileName(items[k])
             /\ returnData[k].mimeType = inputMimeType(items[k])

\* a returned batch of three different items, the middle one failed and caught
C1_Witness ==
    /\ pc = "returned"
    /\ Len(items) = 3
    /\ continueOnFail
    /\ "text" \in DOMAIN returnData[1] /\ returnData[1].method = "txt"
    /\ "error" \in DOMAIN returnData[2]
    /\ "text" \in DOMAIN returnData[3] /\ returnData[3].method = "pdf-ocr"

\* C2 as stated: on every exit path of execute the engine's terminate has
\* been invoked exactly once.
C2_TerminatedExactlyOnce ==
    exited => calls.terminate = 1

engineCreated == \E k \in 1..Len(trace) : isItem(k) /\ trace[k].after # NoWorker

\* C2 as amended: terminate is never invoked while the loop runs; on every
\* exit path it has been invoked exactly once when an engine was created in
\* the run and not at all when none was, and the invocation comes after the
\* last item processed.
C2_TerminatedOncePerCreatedEngine ==
    /\ pc = "loop" => calls.terminate = 0
    /\ exited =>
         /\ calls.terminate = IF engineCreated THEN 1 ELSE 0
         /\ \A k \in 1..Len(trace) :
              trace[k].kind = "terminate" => k = Len(trace)
         /\ engineCreated => trace[Len(trace)].kind = "terminate"

\* the batch aborted by the error of its second item, the engine released
C2_Witness ==
    /\ pc = "thrown"
    /\ thrown # ErrTerminate
    /\ calls.terminate = 1
    /\ Len(trace) = 3
    /\ trace[1].outcome = "ok" /\ trace[1].after # NoWorker
    /\ trace[2].outcome = "thrown"
    /\ trace[3].kind = "terminate"

\* C3 as stated: the engine factory createWorker is invoked at most once in a
\* batch run, whatever the outcome of the items and of the factory call.
C3_FactoryAtMostOnce ==
    calls.createWorker <= 1

\* C4: failure isolation.  With continueOnFail an error of item k is caught
\* and gives, at position k, a degraded record with the error's message and
\* fileType, pageCount, confidence, language and method null, and the loop
\* goes on to every later item; without it the first error propagates: no
\* record is pushed for the item, no later item is processed and execute
\* does not return.
C4_FailureIsolation ==
    /\ \A k \in 1..Len(trace) : isItem(k) =>
         /\ trace[k].err # NoError <=> trace[k].outcome # "ok"
         /\ trace[k].outcome = "caught" =>
              LET r == returnData[k]
              IN /\ continueOnFail
                 /\ DOMAIN r = {"error", "fileName", "mimeType", "fileType",
                                "pageCount", "confidence", "language", "method"}
                 /\ r.error = trace[k].err
                 /\ r.fileType = Null /\ r.language = Null /\ r.method = Null
                 /\ r.pageCount = NullNum /\ r.confidence = NullNum
         /\ trace[k].outcome = "thrown" =>
              /\ ~continueOnFail
              /\ i = k - 1 /\ Len(returnData) = k - 1
              /\ pc \in {"finally", "thrown"}
              /\ thrown \in {trace[k].err, ErrTerminate}
              /\ \A j \in 1..Len(trace) : isItem(j) => j <= k
    /\ (continueOnFail /\ pc # "loop") =>
         \A k \in 1..Len(items) : isItem(k)
    /\ pc = "returned" =>
         \A k \in 1..Len(trace) : isItem(k) => trace[k].outcome # "thrown"

\* with continueOnFail: the engine rejects the second of three items, the
\* third is processed all the same
C4_Witness ==
    /\ continueOnFail
    /\ pc = "returned"
    /\ Len(items) = 3
    /\ trace[1].outcome = "ok"
    /\ trace[2].outcome = "caught" /\ trace[2].err = ErrRecognize
    /\ returnData[2].error = ErrRecognize
    /\ trace[3].outcome = "ok" /\ trace[3].eff.recognize > 0

----------------------------------------------------------------------------
(* extractFromPdf applied to every input of a bounded set (SpecPdf) *)

SeqsUpTo(S, n) == UNION {[1..k -> S] : k \in 0..n}

\* what the rasterizer may render for one page
PageSet ==
    { Page(FALSE, "image", <<>>, 0),
      Page(TRUE, "image", <<"P">>, 180),
      Page(TRUE, "image", <<"Q", " ">>, 160),
      Page(TRUE, "image", <<"R">>, 161),
      Page(TRUE, "corrupt", <<>>, 0) }

\* PDFs that open and render, PDFs that open but do not render, and buffers
\* that are no PDF; the text layer has as many pages as the rasterizer sees
PdfBuffers ==
    { Buffer(k[1], text, 0, Len(pages), k[2], pages) :
        k \in {<<"pdf", TRUE>>, <<"pdf", FALSE>>, <<"corrupt", FALSE>>},
        text \in SeqsUpTo({" ", "a"}, MaxTextLen),
        pages \in SeqsUpTo(PageSet, MaxPages) }

PdfArgs ==
    [buffer : PdfBuffers,
     strategy : {"auto", "text", "ocr"},
     worker : {NoWorker, createWorker("eng", 1)},
     preprocess : BOOLEAN,
     renderScale : {2},
     minTextThreshold : 0..(MaxTextLen + 1)]

pureBatchVars ==
    /\ continueOnFail = FALSE
    /\ i = 0
    /\ pc = "call"
    /\ returnData = <<>>
    /\ worker = NoWorker
    /\ thrown = NoError
    /\ calls = NoBatchCalls
    /\ trace = <<>>

InitPdf ==
    /\ pureBatchVars
    /\ items = <<>>
    /\ fn = "extractFromPdf"
    /\ args \in PdfArgs
    /\ result = <<>>

CallExtractFromPdf ==
    /\ pc = "call"
    /\ fn = "extractFromPdf"
    /\ result' = <<extractFromPdf(args.buffer, args.strategy, args.worker,
                                  args.preprocess, args.renderScale,
                                  args.minTextThreshold)>>
    /\ pc' = "done"
    /\ UNCHANGED <<items, continueOnFail, i, returnData, worker, thrown,
                   calls, trace, fn, args>>

NextPdf == CallExtractFromPdf

SpecPdf == InitPdf /\ [][NextPdf]_vars

pdfDone == pc = "done" /\ fn = "extractFromPdf"

\* C5: PDF short-circuit.  With strategy auto and a text layer whose trimmed
\* length is >= minTextThreshold, extractFromPdf returns the trimmed text with
\* method pdf-text, confidence null and the document's page count, and calls
\* neither the rasterizer nor recognize.
C5_PdfShortCircuit ==
    (/\ pdfDone
     /\ args.strategy = "auto"
     /\ args.buffer.fmt = "pdf"
     /\ Len(trim(args.buffer.text)) >= args.minTextThreshold) =>
        /\ result[1].ok
        /\ result[1].val.method = "pdf-text"
        /\ result[1].val.confidence = NullNum
        /\ result[1].val.pageCount = args.buffer.numPages
        /\ result[1].val.text = trim(args.buffer.text)
        /\ result[1].eff.raster = 0
        /\ result[1].eff.recognize = 0

\* the text is exactly as long as the threshold, an engine is at hand and
\* the document has pages to render
C5_Witness ==
    /\ pdfDone
    /\ args.strategy = "auto"
    /\ args.buffer.fmt = "pdf" /\ args.buffer.rasterOk
    /\ args.worker # NoWorker
    /\ args.minTextThreshold = 1
    /\ Len(trim(args.buffer.text)) = 1
    /\ Len(args.buffer.text) = 2
    /\ args.buffer.numPages = 2
    /\ result[1].ok /\ result[1].val.method = "pdf-text"

renderedPages(buffer) ==
    Cardinality({k \in 1..Len(buffer.pages) : buffer.pages[k].defined})

\* C6: PDF fallback.  With strategy auto, a text layer whose trimmed length
\* is < minTextThreshold and an engine handle, a result of extractFromPdf has
\* method pdf-ocr and as pageCount the number of images the rasterizer
\* returned (the pages with a content), and the rasterizer was called.
C6_PdfFallback ==
    (/\ pdfDone
     /\ args.strategy = "auto"
     /\ args.buffer.fmt = "pdf"
     /\ Len(trim(args.buffer.text)) < args.minTextThreshold
     /\ args.worker # NoWorker
     /\ result[1].ok) =>
        /\ result[1].val.method = "pdf-ocr"
        /\ result[1].val.pageCount = renderedPages(args.buffer)
        /\ result[1].eff.raster = 1
        /\ result[1].eff.recognize = renderedPages(args.buffer)

\* a fallback whose rendered images are fewer than the pages of the text layer
C6_Witness ==
    /\ pdfDone
    /\ args.strategy = "auto"
    /\ args.worker # NoWorker
    /\ Len(trim(args.buffer.text)) = 1 /\ args.minTextThreshold = 2
    /\ result[1].ok
    /\ result[1].val.method = "pdf-ocr"
    /\ args.buffer.numPages = 2
    /\ result[1].val.pageCount = 1

----------------------------------------------------------------------------
(* Properties of the output records (specification Spec) *)

\* C7: in every output record, successful or degraded, confidence is
\* non-null if and only if method is ocr or pdf-ocr.
C7_ConfidenceIffOcrMethod ==
    \A k \in 1..Len(returnData) :
        (returnData[k].confidence # NullNum) <=>
            (returnData[k].method \in {"ocr", "pdf-ocr"})

\* a batch with an OCR'd image, an OCR'd PDF and a record without OCR
C7_Witness ==
    /\ pc = "returned"
    /\ Len(returnData) = 3
    /\ returnData[1].method = "ocr" /\ returnData[1].confidence = Num(81)
    /\ returnData[2].method = "pdf-ocr" /\ returnData[2].confidence = Num(85)
    /\ returnData[3].method = "pdf-text" /\ returnData[3].confidence = NullNum

\* C8: in every output record, successful or degraded, pageCount is non-null
\* if and only if method is pdf-text or pdf-ocr.
C8_PageCountIffPdfMethod ==
    \A k \in 1..Len(returnData) :
        (returnData[k].pageCount # NullNum) <=>
            (returnData[k].method \in {"pdf-text", "pdf-ocr"})

\* a batch with a text-layer PDF, an OCR'd PDF and a degraded record
C8_Witness ==
    /\ pc = "returned"
    /\ Len(returnData) = 3
    /\ returnData[1].method = "pdf-text" /\ returnData[1].pageCount = Num(2)
    /\ returnData[2].method = "pdf-ocr" /\ returnData[2].pageCount = Num(1)
    /\ returnData[3].method = Null /\ returnData[3].pageCount = NullNum

\* C9 as stated: in every successful record, language is the OCR language of
\* the run when the method is ocr or pdf-ocr, and null when the method is
\* pdf-text, docx, doc or txt.
C9_LanguageIffOcrUsed ==
    \A k \in 1..Len(returnData) :
        "text" \in DOMAIN returnData[k] =>
            /\ returnData[k].method \in {"ocr", "pdf-ocr"} =>
                 returnData[k].language = getNodeParameter("ocrLanguage", 0)
            /\ returnData[k].method \in {"pdf-text", "docx", "doc", "txt"} =>
                 returnData[k].language = Null

----------------------------------------------------------------------------
(* the try body applied to one item, for every operation, MIME type and    *)
(* file name of a bounded set (SpecResolve)                                *)

Operations == {"auto", "ocr", "pdf", "document"}

\* binaryData.mimeType: absent (<<>>) or a string
MimeTypes ==
    { <<>>, <<"">>, <<"application/pdf">>, <<"application/msword">>,
      <<"application/vnd.openxmlformats-officedocument.wordprocessingml.document">>,
      <<"text/plain">>, <<"image/png">>, <<"application/x-unknown">>,
      <<"constructor">> }

\* binaryData.fileName: absent (<<>>) or a string
FileNames ==
    { <<>>, << <<>> >>,
      << <<"a", ".", "p", "d", "f">> >>,
      << <<"A", ".", "D", "O", "C">> >>,
      << <<"r", ".", "d", "o", "c", "x">> >>,
      << <<"s", ".", "t", "a", "r", ".", "P", "n", "g">> >>,
      << <<"t", "x", "t">> >>,
      << <<"x", ".", "b", "i", "n">> >>,
      << <<"p", "d", "f", ".">> >> }

InitResolve ==
    /\ pureBatchVars
    /\ fn = "tryBody"
    /\ args \in [operation : Operations, mimeType : MimeTypes,
                 fileName : FileNames]
    /\ items = <<Item(<<Field("data", args.fileName, args.mimeType, DocBuf)>>,
                      Params(args.operation, "eng", FALSE, "text", 0))>>
    /\ result = <<>>

\* the try body runs on the one item of the batch
CallTryBody ==
    /\ pc = "call"
    /\ fn = "tryBody"
    /\ result' = <<tryBody(0, NoWorker, 0, TRUE)>>
    /\ pc' = "done"
    /\ UNCHANGED <<items, continueOnFail, i, returnData, worker, thrown,
                   calls, trace, fn, args>>

NextResolve == CallTryBody

SpecResolve == InitResolve /\ [][NextResolve]_vars

resolveDone == pc = "done" /\ fn = "tryBody"

argMimeType == mimeTypeOf(items[1].binary[1])
argFileName == fileNameOf(items[1].binary[1])
detected == detectFileType(argMimeType, argFileName)

\* C10: operation-to-kind resolution.  ocr gives image and pdf gives pdf
\* whatever is detected; document gives the detected kind when it is doc or
\* docx and docx otherwise, and never fails as unsupported; auto gives the
\* detected kind, and fails the item when nothing is detected, with the
\* message "Unsupported file type: " followed by the MIME type when it is
\* non-empty and by the file name otherwise.
C10_OperationResolution ==
    resolveDone =>
        /\ args.operation = "ocr" => result[1].fileType = "image"
        /\ args.operation = "pdf" => result[1].fileType = "pdf"
        /\ args.operation = "document" =>
             result[1].fileType =
                 IF detected \in {"doc", "docx"} THEN detected ELSE "docx"
        /\ args.operation # "auto" =>
             /\ result[1].fileType # Null
             /\ ~result[1].ok =>
                  result[1].err \in {ErrSharp, ErrRecognize, ErrPdfOpen,
                                     ErrDocx, ErrDoc}
        /\ (args.operation = "auto" /\ detected # Null) =>
             result[1].fileType = detected
        /\ (args.operation = "auto" /\ detected = Null) =>
             /\ ~result[1].ok
             /\ result[1].fileType = Null
             /\ result[1].eff = NoCalls
             /\ result[1].err =
                  "Unsupported file type: " \o
                  (IF argMimeType # "" THEN argMimeType ELSE Str(argFileName))

\* operation document on a legacy .DOC named file without a MIME type: the
\* doc strategy runs
C10_Witness ==
    /\ resolveDone
    /\ args.operation = "document"
    /\ args.mimeType = <<>>
    /\ args.fileName = << <<"A", ".", "D", "O", "C">> >>
    /\ result[1].ok
    /\ result[1].fileType = "doc"
    /\ result[1].record.method = "doc"


----------------------------------------------------------------------------
(* detectFileType applied to every MIME type and file name of a bounded    *)
(* set (SpecDetect)                                                        *)

\* MIME types: every key of MIME_MAP, the empty one (an absent mimeType is
\* as falsy as ''), unsupported ones, a key in another letter case and names
\* every object inherits
DetectMimeTypes ==
    DOMAIN MIME_MAP \cup
        {"", "application/x-unknown", "IMAGE/PNG", "constructor", "toString"}

\* file names: the empty one (an absent fileName is as falsy as ''), names
\* with no, one, several and a trailing '.', upper-case extensions,
\* unsupported extensions and extensions every object inherits
DetectFileNames ==
    { <<>>,
      <<"a", ".", "p", "d", "f">>,
      <<"a", ".", "P", "n", "G">>,
      <<"a", ".", "t", "i", "f">>,
      <<"a", ".", "d", "o", "c">>,
      <<"a", ".", "d", "o", "c", "x">>,
      <<"a", ".", "p", "d", "f", ".", "t", "x", "t">>,
      <<"a", ".", "t", "x", "t", ".">>,
      <<".", "j", "p", "g">>,
      <<"t", "x", "t">>,
      <<"a", ".", "b", "i", "n">>,
      <<"a", ".", "c", "o", "n", "s", "t", "r", "u", "c", "t", "o", "r">>,
      <<"a", ".", "v", "a", "l", "u", "e", "O", "f">> }

InitDetect ==
    /\ pureBatchVars
    /\ items = <<>>
    /\ fn = "detectFileType"
    /\ args \in [mimeType : DetectMimeTypes, fileName : DetectFileNames]
    /\ result = <<>>

CallDetectFileType ==
    /\ pc = "call"
    /\ fn = "detectFileType"
    /\ result' = <<detectFileType(args.mimeType, args.fileName)>>
    /\ pc' = "done"
    /\ UNCHANGED <<items, continueOnFail, i, returnData, worker, thrown,
                   calls, trace, fn, args>>

NextDetect == CallDetectFileType

SpecDetect == InitDetect /\ [][NextDetect]_vars

detectDone == pc = "done" /\ fn = "detectFileType"

\* the fixed tables of the reference function
RefMimeKinds ==
    [m \in {"image/png", "image/jpeg", "image/jpg", "image/webp", "image/bmp",
            "image/tiff", "image/gif"} |-> "image"]
    @@ ("application/pdf" :> "pdf")
    @@ ("application/vnd.openxmlformats-officedocument.wordprocessingml.document" :> "docx")
    @@ ("application/msword" :> "doc")
    @@ ("text/plain" :> "txt")

RefExtKinds ==
    [e \in {<<"p", "n", "g">>, <<"j", "p", "g">>, <<"j", "p", "e", "g">>,
            <<"w", "e", "b", "p">>, <<"b", "m", "p">>, <<"t", "i", "f", "f">>,
            <<"t", "i", "f">>, <<"g", "i", "f">>} |-> "image"]
    @@ (<<"p", "d", "f">> :> "pdf") @@ (<<"d", "o", "c", "x">> :> "docx")
    @@ (<<"d", "o", "c">> :> "doc") @@ (<<"t", "x", "t">> :> "txt")

\* the part of a name after its last '.', the whole name when it has none
RefAfterLastDot(name) ==
    LET dots == {k \in 1..Len(name) : name[k] = "."}
    IN IF dots = {} THEN name
       ELSE SubSeq(name, (CHOOSE k \in dots : \A j \in dots : j <= k) + 1,
                   Len(name))

RefCaseFold == {<<UpperCase[k], LowerCase[k]>> : k \in 1..Len(UpperCase)}

\* the lowercased extension of the name is the key e of the table
RefIsExt(name, e) ==
    /\ Len(RefAfterLastDot(name)) = Len(e)
    /\ \A k \in 1..Len(e) :
         \/ RefAfterLastDot(name)[k] = e[k]
         \/ <<RefAfterLastDot(name)[k], e[k]>> \in RefCaseFold

RefDetect(mimeType, fileName) ==
    IF mimeType \in DOMAIN RefMimeKinds THEN RefMimeKinds[mimeType]
    ELSE IF \E e \in DOMAIN RefExtKinds : RefIsExt(fileName, e)
         THEN RefExtKinds[CHOOSE e \in DOMAIN RefExtKinds : RefIsExt(fileName, e)]
         ELSE Null

\* C11 as stated: detectFileType(mimeType, fileName) equals the reference
\* function for every pair: the MIME table's kind when mimeType is one of
\* its keys, whatever the file name; otherwise the extension table's kind
\* when the lowercased part of fileName after its last '.' is one of its
\* keys; null for every pair where neither lookup hits a supported entry.
C11_DetectEqualsReference ==
    detectDone => result[1] = RefDetect(args.mimeType, args.fileName)


----------------------------------------------------------------------------
(* the batch run, continued *)

\* C12 as stated: every item is processed with its own parameter values:
\* the file type of item k is resolved under the operation configured for
\* item k, its images are preprocessed exactly when the preprocess flag
\* configured for item k is set, and the OCR language reported for it is the
\* one configured for item k, not the values configured for another item.
C12_PerItemParameters ==
    \A k \in 1..Len(trace) : isItem(k) =>
        /\ trace[k].fileType # Null =>
             trace[k].fileType =
                 resolveFileType(items[k].params.operation,
                                 inputMimeType(items[k]),
                                 fileNameOf(binaryOf(items[k],
                                     resolveProperty(items[k], "data"))))
        /\ trace[k].eff.sharp > 0 => items[k].params.preprocess
        /\ (trace[k].eff.recognize > 0 /\ items[k].params.preprocess) =>
             trace[k].eff.sharp > 0
        /\ (trace[k].outcome = "ok" /\ trace[k].needsOcr) =>
             trace[k].pushed[1].language = items[k].params.ocrLanguage


\* the binary field the claim C13 designates for an item that has one
namedFields(item) ==
    {j \in 1..Len(item.binary) : item.binary[j].key = item.params.binaryProperty}
designatedField(item) ==
    IF namedFields(item) # {}
    THEN item.binary[CHOOSE j \in namedFields(item) : TRUE]
    ELSE item.binary[1]

\* C13: binary payload resolution.  An item with a binary field under the
\* configured property name is processed from that field; an item without
\* one is processed from its first binary field; an item with no binary
\* field at all fails with the missing-binary error and neither detection
\* nor extraction nor engine creation is attempted for it.
C13_BinaryResolution ==
    \A k \in 1..Len(trace) : isItem(k) =>
        IF Len(items[k].binary) = 0
        THEN /\ trace[k].outcome # "ok"
             /\ trace[k].err = ErrNoBinary
             /\ trace[k].fileType = Null
             /\ trace[k].eff = NoCalls
             /\ trace[k].after = trace[k].before
        ELSE /\ trace[k].err # ErrNoBinary
             /\ trace[k].fileType =
                  resolveFileType(items[k].params.operation,
                                  mimeTypeOf(designatedField(items[k])),
                                  fileNameOf(designatedField(items[k])))
             /\ trace[k].outcome = "ok" =>
                  /\ trace[k].pushed[1].fileName =
                       Str(fileNameOf(designatedField(items[k])))
                  /\ trace[k].pushed[1].mimeType =
                       mimeTypeOf(designatedField(items[k]))

\* an item with a second field under the configured name, an item whose only
\* field has another name and an item without binary data
C13_Witness ==
    /\ pc = "returned"
    /\ Len(items) = 3
    /\ Len(items[1].binary) = 2 /\ items[1].binary[1].key # "data"
    /\ returnData[1].fileName = "a.txt" /\ returnData[1].method = "txt"
    /\ Len(items[2].binary) = 1 /\ items[2].binary[1].key # "data"
    /\ returnData[2].fileName = "s.PNG" /\ returnData[2].method = "ocr"
    /\ items[3].binary = <<>>
    /\ returnData[3].error = ErrNoBinary


----------------------------------------------------------------------------
(* extractFromPdf applied to every input of a bounded set, continued       *)
(* (SpecPdf)                                                               *)

\* the contents of the pages the rasterizer rendered, in page order
renderedContents(buffer) ==
    LET idx == {k \in 1..Len(buffer.pages) : buffer.pages[k].defined}
        nth(n) == CHOOSE k \in idx : Cardinality({j \in idx : j <= k}) = n
    IN [n \in 1..Cardinality(idx) |-> buffer.pages[nth(n)].content]

\* the first n texts of a list, a blank line between two of them
RECURSIVE RefBlankLineJoined(_, _)
RefBlankLineJoined(contents, n) ==
    IF n = 0 THEN <<>>
    ELSE IF n = 1 THEN trim(contents[1].text)
    ELSE RefBlankLineJoined(contents, n - 1) \o <<"\n">> \o <<"\n">>
            \o trim(contents[n].text)

\* the integer nearest to a confidence given in half units
RefNearest(conf2) == CHOOSE r \in 0..100 : 2 * r - 1 <= conf2 /\ conf2 < 2 * r + 1

RECURSIVE RefSumNearest(_, _)
RefSumNearest(contents, n) ==
    IF n = 0 THEN 0
    ELSE RefSumNearest(contents, n - 1) + RefNearest(contents[n].conf2)

\* C14: on the PDF OCR path with at least one rendered page, the text is the
\* per-page recognized texts in page order joined by "\n\n", pageCount is
\* the number of rendered pages and the confidence is the integer nearest
\* to the mean of the per-page integer-rounded confidences (v with
\* v - 1/2 <= sum/n < v + 1/2).
C14_PdfOcrTextAndConfidence ==
    (/\ pdfDone
     /\ result[1].ok
     /\ result[1].val.method = "pdf-ocr"
     /\ renderedPages(args.buffer) >= 1) =>
        LET contents == renderedContents(args.buffer)
            n == Len(contents)
            v == result[1].val.confidence
        IN /\ result[1].val.text = RefBlankLineJoined(contents, n)
           /\ result[1].val.pageCount = n
           /\ v \notin {NaN, NullNum}
           /\ 2 * n * v.val <= 2 * RefSumNearest(contents, n) + n
           /\ 2 * RefSumNearest(contents, n) + n < 2 * n * (v.val + 1)

\* two pages recognized with confidences 90 and 80: mean 85
C14_Witness ==
    /\ pdfDone
    /\ args.strategy = "ocr"
    /\ Len(args.buffer.pages) = 2
    /\ args.buffer.pages[1].content.conf2 = 180
    /\ args.buffer.pages[2].content.conf2 = 160
    /\ result[1].ok
    /\ result[1].val.method = "pdf-ocr"
    /\ result[1].val.text = <<"P", "\n", "\n", "Q">>
    /\ result[1].val.pageCount = 2
    /\ result[1].val.confidence = Num(85)


----------------------------------------------------------------------------
(* the batch run, continued *)

\* C15 as stated: a failure of the engine's initialization aborts the batch
\* at once: the item whose createWorker call failed is not caught as a
\* per-item error, execute exits with that error and no later item is
\* processed, with or without continueOnFail.
C15_InitFailureAborts ==
    \A k \in 1..Len(trace) :
        (isItem(k) /\ trace[k].err = ErrCreateWorker) =>
            /\ trace[k].outcome = "thrown"
            /\ \A j \in 1..Len(trace) : isItem(j) => j <= k
            /\ pc \in {"finally", "thrown"}
            /\ pc = "thrown" => thrown = ErrCreateWorker


\* C16: the engine of one batch run goes Uninitialized -> Ready ->
\* Terminated only.  Every recognize call of an item (an image, every page
\* of an OCR'd PDF) is made on the Ready engine, the image strategy is never
\* entered with an absent handle, a Ready engine stays the same instance
\* until the finally block, and once it is terminated the run is over: no
\* item is processed, nothing is recognized and no engine is created after.
C16_EngineLifecycle ==
    /\ worker.state \in {"none", "ready", "terminated"}
    /\ worker.state = "terminated" <=> (exited /\ calls.terminate > 0)
    /\ \A k \in 1..Len(trace) :
         IF isItem(k)
         THEN /\ trace[k].before.state \in {"none", "ready"}
              /\ trace[k].before.state = "none" =>
                   trace[k].after.state \in {"none", "ready"}
              /\ trace[k].before.state = "ready" =>
                   trace[k].after = trace[k].before
              /\ trace[k].eff.recognize > 0 => trace[k].after.state = "ready"
              /\ trace[k].err # ErrNullWorker
              /\ k > 1 => trace[k].before = trace[k - 1].after
         ELSE /\ k = Len(trace)
              /\ exited
              /\ worker.state = "terminated"

\* an image and a two-page PDF recognized on the same engine, then released
C16_Witness ==
    /\ pc = "returned"
    /\ Len(trace) = 3
    /\ trace[1].kind = "item" /\ trace[1].fileType = "image"
    /\ trace[1].before = NoWorker /\ trace[1].after.state = "ready"
    /\ trace[1].eff.recognize = 1
    /\ trace[2].kind = "item" /\ trace[2].fileType = "pdf"
    /\ trace[2].after = trace[1].after
    /\ trace[2].eff.recognize = 2
    /\ trace[3].kind = "terminate"
    /\ worker.state = "terminated"
    /\ calls.recognize = 3 /\ calls.createWorker = 1 /\ calls.terminate = 1


\* the items processed before the k-th that needed the engine
earlierOcrItems(k) == {j \in 1..(k - 1) : isItem(j) /\ trace[j].needsOcr}

\* C17 as stated: the engine is created only while processing the first item
\* of the batch whose resolved kind requires OCR (an image, or a pdf whose
\* strategy is not text), and before that item's extraction starts; in a
\* batch where no item reaches such a kind the engine is never created and
\* never terminated.
C17_LazyInitAtFirstOcrItem ==
    /\ \A k \in 1..Len(trace) :
         (isItem(k) /\ trace[k].after # trace[k].before) =>
            /\ trace[k].before = NoWorker
            /\ trace[k].needsOcr
            /\ trace[k].fileType = "image" \/
                 (trace[k].fileType = "pdf" /\
                  items[k].params.pdfStrategy # "text")
            /\ earlierOcrItems(k) = {}
    /\ \A k \in 1..Len(trace) :
         (isItem(k) /\ trace[k].eff.recognize > 0) =>
            trace[k].after # NoWorker
    /\ (\A k \in 1..Len(trace) : isItem(k) => ~trace[k].needsOcr) =>
         /\ worker = NoWorker
         /\ calls.createWorker = 0
         /\ calls.terminate = 0


----------------------------------------------------------------------------
(* extractFromPdf applied to every input of a bounded set, continued       *)
(* (SpecPdf)                                                               *)

\* the call reaches the rasterizer, which renders no image
zeroPageOcr ==
    /\ pdfDone
    /\ args.worker # NoWorker
    /\ args.buffer.fmt = "pdf" /\ args.buffer.rasterOk
    /\ renderedPages(args.buffer) = 0
    /\ \/ args.strategy = "ocr"
       \/ /\ args.strategy = "auto"
          /\ Len(trim(args.buffer.text)) < args.minTextThreshold

\* C18 as stated: when the rasterizer returns no image on the OCR path,
\* extractFromPdf does not divide by zero and returns zero pages, empty text
\* and a null confidence; no result of extractFromPdf has a confidence that
\* is not a number.
C18_ZeroPagePdf ==
    /\ zeroPageOcr =>
         /\ result[1].ok
         /\ result[1].val.pageCount = 0
         /\ result[1].val.text = <<>>
         /\ result[1].val.confidence = NullNum
    /\ (pdfDone /\ result[1].ok) => result[1].val.confidence # NaN

\* C19: the PDF strategy decision table.  With strategy text neither the
\* rasterizer nor the engine (nor the preprocessing) is invoked and a result
\* has method pdf-text, confidence null and the trimmed text layer, whatever
\* its length; with strategy ocr the text layer is never opened, a result
\* has method pdf-ocr when an engine handle is supplied, and without a
\* handle the call returns empty text, zero pages, method pdf-text and
\* confidence null without calling any collaborator.
C19_StrategyDecisionTable ==
    pdfDone =>
        /\ args.strategy = "text" =>
             /\ result[1].eff.raster = 0
             /\ result[1].eff.recognize = 0
             /\ result[1].eff.sharp = 0
             /\ result[1].ok <=> args.buffer.fmt = "pdf"
             /\ result[1].ok =>
                  /\ result[1].val.method = "pdf-text"
                  /\ result[1].val.confidence = NullNum
                  /\ result[1].val.text = trim(args.buffer.text)
                  /\ result[1].val.pageCount = args.buffer.numPages
        /\ args.strategy = "ocr" =>
             /\ result[1].eff.open = 0
             /\ (args.worker # NoWorker /\ result[1].ok) =>
                  result[1].val.method = "pdf-ocr"
             /\ args.worker = NoWorker =>
                  /\ result[1].ok
                  /\ result[1].val.text = <<>>
                  /\ result[1].val.pageCount = 0
                  /\ result[1].val.method = "pdf-text"
                  /\ result[1].val.confidence = NullNum
                  /\ result[1].eff = NoCalls

\* strategy text, an engine at hand, pages to render and a text layer that
\* trims to nothing, below the threshold
C19_Witness ==
    /\ pdfDone
    /\ args.strategy = "text"
    /\ args.worker # NoWorker
    /\ args.buffer.fmt = "pdf" /\ args.buffer.rasterOk
    /\ args.buffer.numPages = 2
    /\ args.buffer.text = <<" ">>
    /\ args.minTextThreshold = 2
    /\ result[1].ok
    /\ result[1].val.method = "pdf-text"
    /\ result[1].val.text = <<>>
    /\ result[1].eff = [NoCalls EXCEPT !.open = 1]


----------------------------------------------------------------------------
(* the batch run, continued *)

\* C20: a per-item error caught under continueOnFail leaves the shared
\* engine as it was.  When the engine was Ready before the failing item it
\* is the same Ready instance after it, the next iteration starts from it,
\* every later item that needs OCR runs on it, createWorker is not called
\* again, and the records pushed for the earlier items are still in
\* returnData, unchanged and at their positions.
C20_CaughtErrorKeepsEngine ==
    \A k \in 1..Len(trace) :
        (/\ isItem(k)
         /\ trace[k].outcome = "caught"
         /\ trace[k].before.state = "ready") =>
            /\ trace[k].after = trace[k].before
            /\ calls.createWorker = trace[k].before.id
            /\ pc = "loop" => worker = trace[k].before
            /\ \A j \in (k + 1)..Len(trace) : isItem(j) =>
                 /\ trace[j].before = trace[k].before
                 /\ trace[j].after = trace[k].before
                 /\ (trace[j].needsOcr /\ trace[j].eff.recognize > 0) =>
                      trace[j].after.state = "ready"
            /\ Len(returnData) >= k
            /\ \A j \in 1..(k - 1) : <<returnData[j]>> = trace[j].pushed

\* the engine created for the first item survives the caught error of the
\* second and recognizes the third
C20_Witness ==
    /\ continueOnFail
    /\ pc = "loop"
    /\ Len(trace) = 3
    /\ trace[1].outcome = "ok"
    /\ trace[1].before = NoWorker /\ trace[1].after.state = "ready"
    /\ trace[2].outcome = "caught" /\ trace[2].before = trace[1].after
    /\ trace[3].outcome = "ok" /\ trace[3].needsOcr
    /\ trace[3].eff.recognize > 0
    /\ trace[3].after = trace[1].after
    /\ worker = trace[1].after
    /\ calls.createWorker = 1
    /\ Len(returnData) = 3 /\ <<returnData[1]>> = trace[1].pushed

====
